---- MODULE Spec2Model ----
(***************************************************************************)
(* Verification model of the alkatto orchestration graphs: the financial,  *)
(* market, general, research and interview pipelines and the analyst       *)
(* graph with its human-review suspension.  The graph definitions, node    *)
(* functions and selectors are those of the Python sources; the execution  *)
(* engine that runs them (waves, merge, cycle budget, checkpoints) is the  *)
(* one the design document describes.                                      *)
(***************************************************************************)
EXTENDS Integers, Sequences, FiniteSets, TLC

VARIABLES
    pipeline,    \* the sub-pipeline graph this run executes
    state,       \* the run's SharedState: a mapping from the fields present to values
    wave,        \* the nodes of the current execution wave
    status,      \* per node of the graph: "idle", "pending", "running" or "done"
    updates,     \* per finished node of the wave: the partial update it returned
    completed,   \* the nodes of the current wave in completion order
    lastOrder,   \* the completion order of the wave merged last
    visits,      \* node visits of the run so far
    execCount,   \* per node: how many times it has started executing
    outcome,     \* "RUNNING", "TERMINATED", "CycleBudgetExceeded" or the
                 \* exception a node raised
    allRetry,    \* every selector evaluation so far returned its retry label
    history,     \* the answers the external capabilities gave the nodes, in order
    returned,    \* what the caller of the sub-pipeline got back, NotReturned before
    inputs,      \* per finished node of the wave: the state object it was handed,
                 \* as the node left it
    waves,       \* the waves of the run merged so far
    runNo,       \* the number of the sub-pipeline run of this process (0: none)
    vectorstore, \* research: the documents in the module-level vectorstore
    runs,        \* analyst graph: per run identifier, the run's record
    store,       \* analyst graph: the checkpoint store, a set of RunCheckpoints
    lastCall,    \* analyst graph: the last start/resume call and what it returned
    probe,       \* a selector applied to a state on its own: input and label
    cache,       \* StockRetriever: self.cache, cache key -> (time, data)
    clock,       \* StockRetriever: datetime.now(), in minutes
    call         \* StockRetriever: the last get_stock_data call and its result

vars == <<pipeline, state, wave, status, updates, completed, lastOrder, visits,
          execCount, outcome, allRetry, history, returned, inputs, waves, runNo,
          vectorstore, runs, store, lastCall, probe, cache, clock, call>>

pipeVars == <<pipeline, state, wave, status, updates, completed, lastOrder,
              visits, execCount, outcome, allRetry, history, returned, inputs,
              waves, runNo, vectorstore>>

analystVars == <<runs, store, lastCall>>

(***************************************************************************)
(* Bounds of the model.                                                    *)
(***************************************************************************)
\* max_num_turns of an interview is drawn from 0..MaxTurns (or left absent)
MaxTurns == 3

\* The execution budget of a run: the maximum number of node visits.
CycleBudget == 10

\* a process serves up to MaxRuns research runs one after the other
MaxRuns == 2

END == "__end__"

(***************************************************************************)
(* Dictionaries are functions over the keys that are present.              *)
(***************************************************************************)
EmptyDict == [k \in {} |-> k]

\* the caller of a sub-pipeline has nothing back yet
NotReturned == [pending |-> TRUE]

Get(d, k, default) == IF k \in DOMAIN d THEN d[k] ELSE default

\* d with the entries of u written over it
Overwrite(d, u) ==
    [k \in DOMAIN d \cup DOMAIN u |-> IF k \in DOMAIN u THEN u[k] ELSE d[k]]

(***************************************************************************)
(* The graphs, as the sources build them.  Nodes(p) is the sequence of     *)
(* add_node calls: the declared node order.                                *)
(***************************************************************************)
Pipelines == {"financial", "market", "general", "research", "interview"}

FinancialNodes ==
    <<"analyze_stock_data", "analyze_market_sentiment",
      "analyze_technical_indicators", "generate_price_targets", "write_article">>

FinancialEdgesChained ==
    { <<"analyze_stock_data", "analyze_market_sentiment">>,
      <<"analyze_market_sentiment", "analyze_technical_indicators">>,
      <<"analyze_technical_indicators", "generate_price_targets">>,
      <<"generate_price_targets", "write_article">> }

FinancialEdges ==
    { <<"analyze_stock_data", "write_article">>,
      <<"analyze_market_sentiment", "write_article">>,
      <<"analyze_technical_indicators", "write_article">>,
      <<"generate_price_targets", "write_article">> }

FinancialEntryPointsOnlyFirst == {"analyze_stock_data"}

FinancialEntryPoints ==
    {"analyze_stock_data", "analyze_market_sentiment",
     "analyze_technical_indicators", "generate_price_targets"}

MarketNodes == <<"analyze_trends", "analyze_sentiment", "write_report", "check_quality">>

MarketEdges ==
    { <<"analyze_trends", "analyze_sentiment">>,
      <<"analyze_sentiment", "write_report">>,
      <<"write_report", "check_quality">> }

MarketEntryPoints == {"analyze_trends"}

GeneralNodes ==
    <<"search_web", "combine_results", "check_relevancy", "analyze_results",
      "write_article">>

GeneralEdges ==
    { <<"search_web", "combine_results">>,
      <<"combine_results", "check_relevancy">>,
      <<"check_relevancy", "analyze_results">>,
      <<"analyze_results", "write_article">>,
      <<"write_article", END>> }

GeneralEntryPoints == {"search_web"}

ResearchNodes == <<"index", "agent", "retrieve", "rewrite", "generate">>

ResearchEdges ==
    { <<"index", "agent">>, <<"generate", END>>, <<"rewrite", "agent">> }

ResearchEntryPoints == {"index"}

InterviewNodesWikipediaFirst ==
    <<"ask_question", "search_wikipedia", "search_web", "answer_question",
      "save_interview", "write_section">>

InterviewNodes ==
    <<"ask_question", "search_web", "search_wikipedia", "answer_question",
      "save_interview", "write_section">>

InterviewEdgesWikipediaAfterWeb ==
    { <<"ask_question", "search_web">>,
      <<"search_web", "search_wikipedia">>,
      <<"search_web", "answer_question">>,
      <<"search_wikipedia", "answer_question">>,
      <<"save_interview", "write_section">>,
      <<"write_section", END>> }

InterviewEdges ==
    { <<"ask_question", "search_web">>,
      <<"ask_question", "search_wikipedia">>,
      <<"search_web", "answer_question">>,
      <<"search_wikipedia", "answer_question">>,
      <<"save_interview", "write_section">>,
      <<"write_section", END>> }

InterviewEntryPoints == {"ask_question"}

Nodes(p) ==
    CASE p = "financial" -> FinancialNodes
      [] p = "market"    -> MarketNodes
      [] p = "general"   -> GeneralNodes
      [] p = "research"  -> ResearchNodes
      [] p = "interview" -> InterviewNodes

Edges(p) ==
    CASE p = "financial" -> FinancialEdges
      [] p = "market"    -> MarketEdges
      [] p = "general"   -> GeneralEdges
      [] p = "research"  -> ResearchEdges
      [] p = "interview" -> InterviewEdges

EntryPoints(p) ==
    CASE p = "financial" -> FinancialEntryPoints
      [] p = "market"    -> MarketEntryPoints
      [] p = "general"   -> GeneralEntryPoints
      [] p = "research"  -> ResearchEntryPoints
      [] p = "interview" -> InterviewEntryPoints

NodeSet(p) == { Nodes(p)[i] : i \in DOMAIN Nodes(p) }

AllNodes == UNION { NodeSet(p) : p \in Pipelines }

(***************************************************************************)
(* Messages.  A message carries the identifier the messages reducer gives  *)
(* it (0: none yet), its type, its display name and its content.           *)
(***************************************************************************)
Msg(type, name, content, tool_calls) ==
    [id |-> 0, type |-> type, name |-> name, content |-> content,
     tool_calls |-> tool_calls]

HumanMessage(content) == Msg("human", "", content, FALSE)

AIMessage(content) == Msg("ai", "", content, FALSE)

MaxId(msgs) ==
    IF msgs = <<>> THEN 0
    ELSE CHOOSE m \in { msgs[i].id : i \in DOMAIN msgs } :
            \A i \in DOMAIN msgs : msgs[i].id <= m

\* the add_messages reducer: a message with a known id replaces the one
\* stored under it, any other message is appended (with a fresh id)
RECURSIVE AddMessages(_, _)
AddMessages(left, right) ==
    IF right = <<>> THEN left
    ELSE LET m    == Head(right)
             m1   == IF m.id = 0 THEN [m EXCEPT !.id = MaxId(left) + 1] ELSE m
             same == { i \in DOMAIN left : left[i].id = m1.id }
             next == IF same = {} THEN Append(left, m1)
                     ELSE [left EXCEPT ![CHOOSE i \in same : TRUE] = m1]
         IN  AddMessages(next, Tail(right))

(***************************************************************************)
(* Merge policies of the state fields: messages is reduced by              *)
(* add_messages in every state class, the interview's context by           *)
(* operator.add; every other field is overwritten.                         *)
(***************************************************************************)
MergeField(p, s, k, v) ==
    IF k = "messages" THEN AddMessages(Get(s, "messages", <<>>), v)
    ELSE IF p = "interview" /\ k = "context" THEN Get(s, "context", <<>>) \o v
    ELSE v

\* the state after one node's partial update has been merged into it
Merge(p, s, u) ==
    [k \in DOMAIN s \cup DOMAIN u |->
        IF k \in DOMAIN u THEN MergeField(p, s, k, u[k]) ELSE s[k]]

(***************************************************************************)
(* Answers of the reasoning backend that a node parses as JSON.  A text    *)
(* that is the JSON encoding of value v is [json |-> v]; any other text is *)
(* [text |-> ...].  json.loads returns the value or raises                 *)
(* JSONDecodeError; an exception a node does not catch is its result.      *)
(***************************************************************************)
JsonText(v) == [json |-> v]

NotJson == [text |-> "not json"]

JSONDecodeError == [raised |-> "JSONDecodeError"]

Raised(u) == "raised" \in DOMAIN u

json_loads(a) == IF "json" \in DOMAIN a THEN a.json ELSE JSONDecodeError

(***************************************************************************)
(* StockRetriever.get_stock_data of shared/stock_retriever.py: cached is   *)
(* the entry of the cache that is younger than 15 minutes (EmptyDict when  *)
(* there is none), fetch is how the download of the price history ends.    *)
(***************************************************************************)
Fetches == {"ok", "empty", "invalid_api_call", "failed_to_download", "other_error"}

FailedFetches == Fetches \ {"ok"}

StockResult(symbol) == [symbol |-> symbol, current_price |-> "price"]

get_stock_data(symbol, cached, fetch) ==
    IF symbol = "" THEN [error |-> "No stock symbol provided"]
    ELSE IF cached # EmptyDict THEN cached
    ELSE CASE fetch = "ok"    -> StockResult(symbol)
           [] fetch = "empty" -> [error |-> "No data found"]
           [] fetch = "invalid_api_call"   -> [error |-> "Invalid stock symbol"]
           [] fetch = "failed_to_download" -> [error |-> "Failed to download data"]
           [] OTHER -> [error |-> "Unexpected error"]

(***************************************************************************)
(* The cache of StockRetriever: self.cache maps the key of a (symbol,      *)
(* period) pair to the time of the fetch and the result.  Time is          *)
(* datetime.now() in minutes; price is the closing price a fetch reads.    *)
(***************************************************************************)
Symbols == {"AAPL", ""}

CacheMinutes == 15

MaxClock == 30

Ticks == {5, 10}

Periods == {"1y", "1d"}

Prices == {100, 101}

cache_key(symbol, period) == symbol \o "_" \o period

\* lines 25-28: the data of the entry when it is younger than 15 minutes
cached_data_up_to_15(c, key, now) ==
    IF key \in DOMAIN c /\ now - c[key].time <= CacheMinutes
    THEN c[key].data ELSE EmptyDict

cached_data(c, key, now) ==
    IF key \in DOMAIN c /\ now - c[key].time < CacheMinutes
    THEN c[key].data ELSE EmptyDict

\* line 81, reached only when no return and no exception came before it
cache_after_any_fetch(c, key, now, fetch, result) ==
    (key :> [time |-> now, data |-> result]) @@ c

cache_after(c, key, now, fetch, result) ==
    IF fetch = "ok" THEN (key :> [time |-> now, data |-> result]) @@ c ELSE c

RetrieverInit ==
    /\ cache = <<>>
    /\ clock = 0
    /\ call = [symbol |-> "", period |-> "", at |-> 0, fetched |-> FALSE,
               fetch |-> "none", price |-> 0, result |-> EmptyDict, calls |-> 0]

\* get_stock_data(symbol, period) with the fetch ending as fetch says
GetStockData(symbol, period, fetch, price) ==
    LET key    == cache_key(symbol, period)
        cached == IF symbol = "" THEN EmptyDict ELSE cached_data(cache, key, clock)
        fetched == symbol # "" /\ cached = EmptyDict
        answer == get_stock_data(symbol, cached, fetch)
        \* lines 60-78: the result of a fetch carries the price it read
        result == IF fetched /\ fetch = "ok"
                  THEN [answer EXCEPT !.current_price = price] ELSE answer
    IN  /\ cache' = IF fetched THEN cache_after(cache, key, clock, fetch, result)
                    ELSE cache
        /\ call' = [symbol |-> symbol, period |-> period, at |-> clock,
                    fetched |-> fetched,
                    fetch |-> IF fetched THEN fetch ELSE "none",
                    price |-> IF fetched /\ fetch = "ok" THEN price ELSE 0,
                    result |-> result, calls |-> 1 - call.calls]
        /\ UNCHANGED <<clock, probe, analystVars, pipeVars>>

\* time passes between two calls
Advance(d) ==
    /\ clock + d <= MaxClock
    /\ clock' = clock + d
    /\ UNCHANGED <<cache, call, probe, analystVars, pipeVars>>

RetrieverNext ==
    \/ \E symbol \in Symbols, period \in Periods, fetch \in Fetches, price \in Prices :
          GetStockData(symbol, period, fetch, price)
    \/ \E d \in Ticks : Advance(d)

(***************************************************************************)
(* Financial pipeline: the node functions.  r is the stock symbol the      *)
(* backend extracts from the last message.                                 *)
(***************************************************************************)
analyze_stock_data(s, r) ==
    [stock_data |-> [symbol |-> r, company_overview |-> "overview",
                     confidence |-> 80, analysis |-> "llm"]]

analyze_market_sentiment_writes_stock_data(s, r) ==
    [stock_data |-> [symbol |-> r, market_analysis |-> "market analysis",
                     confidence |-> 75, analysis |-> "llm"]]

analyze_market_sentiment(s, r) ==
    [market_sentiment |-> [symbol |-> r, market_analysis |-> "market analysis",
                           confidence |-> 75, analysis |-> "llm"]]

analyze_technical_indicators(s) ==
    [technical_analysis |->
        [symbol |-> Get(Get(s, "stock_data", EmptyDict), "symbol", ""),
         confidence |-> 70, analysis |-> "llm"]]

generate_price_targets(s) ==
    [price_targets |->
        [stock_data |-> Get(s, "stock_data", EmptyDict),
         market_sentiment |-> Get(s, "market_sentiment", EmptyDict),
         technical_analysis |-> Get(s, "technical_analysis", EmptyDict),
         analysis |-> "llm"]]

\* the data write_financial_article hands the backend to write the article from
article_data(s) ==
    LET stock_data         == Get(s, "stock_data", EmptyDict)
        market_sentiment   == Get(s, "market_sentiment", EmptyDict)
        technical_analysis == Get(s, "technical_analysis", EmptyDict)
        price_targets      == Get(s, "price_targets", EmptyDict)
        targets            == Get(price_targets, "targets", EmptyDict)
    IN  [title |-> Get(stock_data, "symbol", "Unknown"),
         company_overview |-> Get(stock_data, "company_overview", ""),
         market_analysis |-> Get(market_sentiment, "market_analysis", ""),
         technical_analysis |-> Get(technical_analysis, "analysis", ""),
         investment_thesis |-> Get(price_targets, "investment_thesis", ""),
         price_targets |-> [base_case |-> Get(targets, "base_case", 0),
                            bull_case |-> Get(targets, "bull_case", 0),
                            bear_case |-> Get(targets, "bear_case", 0)]]

write_financial_article(s) == [messages |-> <<HumanMessage("article")>>]

(***************************************************************************)
(* Market pipeline.  r is the quality judgment parsed from the backend.    *)
(***************************************************************************)
Judgments == { [approved |-> TRUE], [approved |-> FALSE], EmptyDict }

\* the texts the backend may answer the quality check with
QualityAnswers == { JsonText(j) : j \in Judgments } \cup {NotJson}

analyze_market_trends(s) == [analysis |-> [market_trends |-> "llm"]]

market_analyze_market_sentiment(s) == [analysis |-> [market_sentiment |-> "llm"]]

write_market_report(s) == [messages |-> <<HumanMessage("report")>>]

check_research_quality(s, r) ==
    LET evaluation == json_loads(r)
    IN  IF Raised(evaluation) THEN evaluation
        ELSE [analysis |-> [quality_control |-> evaluation]]

needs_revision_default_approved(s) ==
    LET analysis        == Get(s, "analysis", EmptyDict)
        quality_control == Get(analysis, "quality_control", EmptyDict)
    IN  IF Get(quality_control, "approved", TRUE) THEN "end" ELSE "revise_report"

needs_revision_inverted(s) ==
    LET analysis        == Get(s, "analysis", EmptyDict)
        quality_control == Get(analysis, "quality_control", EmptyDict)
    IN  IF Get(quality_control, "approved", FALSE) THEN "revise_report" ELSE "end"

needs_revision(s) ==
    LET analysis        == Get(s, "analysis", EmptyDict)
        quality_control == Get(analysis, "quality_control", EmptyDict)
    IN  IF Get(quality_control, "approved", FALSE) THEN "end" ELSE "revise_report"

(***************************************************************************)
(* General pipeline.  r is the relevancy verdict parsed from the backend.  *)
(***************************************************************************)
Verdicts ==
    { [relevant |-> TRUE],
      [relevant |-> FALSE, suggestions |-> <<"adjusted query">>],
      EmptyDict }

\* the texts the backend may answer the relevancy check with
RelevancyAnswers == { JsonText(v) : v \in Verdicts } \cup {NotJson}

\* the texts the backend may answer the analysis request with
AnalysisAnswers == { JsonText([analysis_summary |-> "summary"]), NotJson }

\* the documents a retriever returns for a query
WebSearch(query) == << [page_content |-> "web_doc", query |-> query] >>

general_search_web(s) ==
    LET messages     == s.messages
        last_message == IF messages # <<>> THEN messages[Len(messages)].content
                        ELSE ""
    IN  [web_results |-> WebSearch(last_message)]

combine_results(s) ==
    [context |-> Get(s, "web_results", <<>>) \o Get(s, "wiki_results", <<>>)]

check_relevancy(s, r) ==
    LET evaluation == json_loads(r)
    IN  IF Raised(evaluation) THEN evaluation
        ELSE [analysis |-> [relevancy_check |-> evaluation]]

analyze_search_results(s, r) ==
    LET parsed == json_loads(r)
        analysis_result ==
            IF Raised(parsed)
            THEN [key_themes |-> <<>>, facts |-> <<>>, conflicts |-> <<>>,
                  source_reliability |-> EmptyDict, information_gaps |-> <<>>,
                  analysis_summary |-> r.text]
            ELSE parsed
    IN  [analysis |-> analysis_result]

write_general_article(s) == [messages |-> <<HumanMessage("article")>>]

needs_new_search(s) ==
    LET analysis        == Get(s, "analysis", EmptyDict)
        relevancy_check == Get(analysis, "relevancy_check", EmptyDict)
    IN  IF Get(relevancy_check, "relevant", FALSE) THEN "analyze_results"
        ELSE "search_web"

(***************************************************************************)
(* Research pipeline.  index: r tells whether ArXiv returned papers;       *)
(* agent: r tells whether the backend's answer requests the retriever tool.*)
(***************************************************************************)
index_papers_replaces_question(s, r) ==
    IF r = "none" THEN [messages |-> <<HumanMessage("no_papers")>>]
    ELSE [messages |-> <<[s.messages[1] EXCEPT !.content = "arxiv query"]>>,
          query |-> s.messages[1].content]

index_papers(s, r) ==
    IF r = "none" THEN [messages |-> <<HumanMessage("no_papers")>>]
    ELSE Overwrite(s, [query |-> s.messages[1].content])

\* the state object index_papers was called with, once it has returned: the
\* function writes the query into it before anything else
index_papers_state(s) == Overwrite(s, [query |-> s.messages[1].content])

\* the summaries of the papers ArXiv returns for the question of run k
summary_docs(k) == { [paper |-> k] }

\* vectorstore.add_documents on the module-level vectorstore
add_documents(vs, docs) == vs \cup docs

agent(s, r) == [messages |-> <<Msg("ai", "", "agent", r)>>]

\* the retriever tool searches the module-level vectorstore
retrieve(s, vs) == [messages |-> <<Msg("tool", "retrieve_papers", vs, FALSE)>>]

rewrite(s) == [messages |-> <<AIMessage("rewritten")>>]

generate(s) == [messages |-> <<HumanMessage("analysis")>>]

\* langgraph.prebuilt.tools_condition: the last message requests a tool
tools_condition(s) ==
    LET last == s.messages[Len(s.messages)]
    IN  IF last.type = "ai" /\ last.tool_calls THEN "tools" ELSE END

grade_documents_inverted(score) == IF score = "yes" THEN "rewrite" ELSE "generate"

\* the grade is the backend's binary score
grade_documents(score) == IF score = "yes" THEN "generate" ELSE "rewrite"

(***************************************************************************)
(* Interview graph.  ask_question: r is the question the backend wrote     *)
(* ("thanks" stands for one containing "Thank you so much for your help"). *)
(***************************************************************************)
Analyst(name) ==
    [name |-> name, role |-> "Research Analyst",
     affiliation |-> "Research Organization", description |-> "objective"]

persona(a) ==
    <<"Name: ", a.name, "\nRole: ", a.role, "\nAffiliation: ", a.affiliation,
      "\nDescription: ", a.description, "\n">>

\* Analyst.get_default() and Analyst(): the one default instance
DefaultAnalyst == Analyst("Generic Analyst")

\* Python's None, and what reading an attribute of it raises
None == [none |-> TRUE]

AttributeError == [raised |-> "AttributeError"]

\* a.name: the attribute's value, or the exception the access raises
getattr(a, name) ==
    IF a = None THEN AttributeError
    ELSE IF name = "persona" THEN [value |-> persona(a)]
    ELSE [value |-> a[name]]

\* state.get("analyst", <default>): the default stands in for an absent key
state_get_analyst(s) == Get(s, "analyst", DefaultAnalyst)

generate_question(s, r) ==
    LET analyst == state_get_analyst(s)
        goals   == getattr(analyst, "persona")
    IN  IF Raised(goals) THEN goals ELSE [messages |-> <<AIMessage(r)>>]

search_web(s) == [context |-> <<"web_docs">>]

search_wikipedia(s) == [context |-> <<"wiki_docs">>]

generate_answer(s) ==
    LET analyst == state_get_analyst(s)
        goals   == getattr(analyst, "persona")
    IN  IF Raised(goals) THEN goals
        ELSE [messages |-> <<Msg("ai", "expert", "answer", FALSE)>>]

save_interview(s) == [interview |-> "transcript"]

write_section(s) ==
    LET analyst == state_get_analyst(s)
        focus   == getattr(analyst, "description")
    IN  IF Raised(focus) THEN focus ELSE [sections |-> <<"section">>]

route_messages_end_label(s) ==
    LET messages      == s.messages
        max_num_turns == Get(s, "max_num_turns", 2)
        num_responses ==
            Cardinality({ i \in DOMAIN messages :
                            messages[i].type = "ai" /\ messages[i].name = "expert" })
    IN  IF num_responses >= max_num_turns THEN "save_interview"
        ELSE IF messages[Len(messages) - 1].content = "thanks" THEN "end"
        ELSE "ask_question"

route_messages_one_turn_more(s) ==
    LET messages      == s.messages
        max_num_turns == Get(s, "max_num_turns", 2)
        num_responses ==
            Cardinality({ i \in DOMAIN messages :
                            messages[i].type = "ai" /\ messages[i].name = "expert" })
    IN  IF num_responses > max_num_turns THEN "save_interview"
        ELSE IF messages[Len(messages) - 1].content = "thanks" THEN "save_interview"
        ELSE "ask_question"

route_messages_reads_last(s) ==
    LET messages      == s.messages
        max_num_turns == Get(s, "max_num_turns", 2)
        num_responses ==
            Cardinality({ i \in DOMAIN messages :
                            messages[i].type = "ai" /\ messages[i].name = "expert" })
    IN  IF num_responses >= max_num_turns THEN "save_interview"
        ELSE IF messages[Len(messages)].content = "thanks" THEN "save_interview"
        ELSE "ask_question"

route_messages(s) ==
    LET messages      == s.messages
        max_num_turns == Get(s, "max_num_turns", 2)
        num_responses ==
            Cardinality({ i \in DOMAIN messages :
                            messages[i].type = "ai" /\ messages[i].name = "expert" })
    IN  IF num_responses >= max_num_turns THEN "save_interview"
        ELSE IF messages[Len(messages) - 1].content = "thanks" THEN "save_interview"
        ELSE "ask_question"

(***************************************************************************)
(* Dispatch of the node functions and selectors of each graph.             *)
(***************************************************************************)
\* the answers the external capabilities can give a node
Responses(p, n) ==
    CASE p = "financial" /\ n \in {"analyze_stock_data", "analyze_market_sentiment"}
            -> Symbols
      [] p = "market" /\ n = "check_quality"     -> QualityAnswers
      [] p = "general" /\ n = "check_relevancy"  -> RelevancyAnswers
      [] p = "general" /\ n = "analyze_results"  -> AnalysisAnswers
      [] p = "research" /\ n = "index"           -> {"found", "none"}
      [] p = "research" /\ n = "agent"           -> BOOLEAN
      [] p = "interview" /\ n = "ask_question"   -> {"question", "thanks"}
      [] OTHER -> {"llm"}

\* the partial update node n returns when it reads snapshot s
NodeUpdate(p, n, s, r, vs) ==
    CASE p = "financial" /\ n = "analyze_stock_data" -> analyze_stock_data(s, r)
      [] p = "financial" /\ n = "analyze_market_sentiment" -> analyze_market_sentiment(s, r)
      [] p = "financial" /\ n = "analyze_technical_indicators" -> analyze_technical_indicators(s)
      [] p = "financial" /\ n = "generate_price_targets" -> generate_price_targets(s)
      [] p = "financial" /\ n = "write_article" -> write_financial_article(s)
      [] p = "market" /\ n = "analyze_trends" -> analyze_market_trends(s)
      [] p = "market" /\ n = "analyze_sentiment" -> market_analyze_market_sentiment(s)
      [] p = "market" /\ n = "write_report" -> write_market_report(s)
      [] p = "market" /\ n = "check_quality" -> check_research_quality(s, r)
      [] p = "general" /\ n = "search_web" -> general_search_web(s)
      [] p = "general" /\ n = "combine_results" -> combine_results(s)
      [] p = "general" /\ n = "check_relevancy" -> check_relevancy(s, r)
      [] p = "general" /\ n = "analyze_results" -> analyze_search_results(s, r)
      [] p = "general" /\ n = "write_article" -> write_general_article(s)
      [] p = "research" /\ n = "index" -> index_papers(s, r)
      [] p = "research" /\ n = "agent" -> agent(s, r)
      [] p = "research" /\ n = "retrieve" -> retrieve(s, vs)
      [] p = "research" /\ n = "rewrite" -> rewrite(s)
      [] p = "research" /\ n = "generate" -> generate(s)
      [] p = "interview" /\ n = "ask_question" -> generate_question(s, r)
      [] p = "interview" /\ n = "search_web" -> search_web(s)
      [] p = "interview" /\ n = "search_wikipedia" -> search_wikipedia(s)
      [] p = "interview" /\ n = "answer_question" -> generate_answer(s)
      [] p = "interview" /\ n = "save_interview" -> save_interview(s)
      [] p = "interview" /\ n = "write_section" -> write_section(s)

\* the state object node n was handed, as the node leaves it
NodeInput(p, n, s) ==
    IF p = "research" /\ n = "index" THEN index_papers_state(s) ELSE s

\* the module-level vectorstore after node n of run k has executed
VectorstoreAfter(p, n, r, vs, k) ==
    IF p = "research" /\ n = "index" /\ r = "found"
    THEN add_documents(vs, summary_docs(k))
    ELSE vs

\* the nodes that carry a conditional edge
ConditionalNodes(p) ==
    CASE p = "market"    -> {"check_quality"}
      [] p = "general"   -> {"check_relevancy"}
      [] p = "research"  -> {"agent", "retrieve"}
      [] p = "interview" -> {"answer_question"}
      [] OTHER           -> {}

\* the declared labels of each conditional edge and the node each one selects
MarketPathMapSwapped == [revise_report |-> END, end |-> "write_report"]

MarketPathMap == [revise_report |-> "write_report", end |-> END]

GeneralPathMapSkipsSearch ==
    [analyze_results |-> "analyze_results", search_web |-> "combine_results"]

GeneralPathMap == [analyze_results |-> "analyze_results", search_web |-> "search_web"]

ResearchAgentPathMap == [tools |-> "retrieve", __end__ |-> END]

ResearchRetrievePathMap == [generate |-> "generate", rewrite |-> "rewrite"]

InterviewPathMap == [ask_question |-> "ask_question", save_interview |-> "save_interview"]

PathMap(p, n) ==
    CASE p = "market" /\ n = "check_quality"       -> MarketPathMap
      [] p = "general" /\ n = "check_relevancy"    -> GeneralPathMap
      [] p = "research" /\ n = "agent"             -> ResearchAgentPathMap
      [] p = "research" /\ n = "retrieve"          -> ResearchRetrievePathMap
      [] p = "interview" /\ n = "answer_question"  -> InterviewPathMap

Scores == {"yes", "no"}

\* the label the selector of node n returns on state s (score: the grade
\* the backend gives the retrieved documents, read by grade_documents only)
SelectorLabel(p, n, s, score) ==
    CASE p = "market" /\ n = "check_quality"        -> needs_revision(s)
      [] p = "general" /\ n = "check_relevancy"     -> needs_new_search(s)
      [] p = "research" /\ n = "agent"              -> tools_condition(s)
      [] p = "research" /\ n = "retrieve"           -> grade_documents(score)
      [] p = "interview" /\ n = "answer_question"   -> route_messages(s)

\* the label of each conditional edge that leads back into the cycle
RetryLabel(p, n) ==
    CASE p = "market" /\ n = "check_quality"        -> "revise_report"
      [] p = "general" /\ n = "check_relevancy"     -> "search_web"
      [] p = "research" /\ n = "agent"              -> "tools"
      [] p = "research" /\ n = "retrieve"           -> "rewrite"
      [] p = "interview" /\ n = "answer_question"   -> "ask_question"

(***************************************************************************)
(* The state a sub-pipeline run starts from.                               *)
(***************************************************************************)
Question == AddMessages(<<>>, <<HumanMessage("question")>>)

TurnInputs == 0..MaxTurns

\* the analyst field a caller may put into the input of an interview
AnalystInputs == { None, Analyst("ada") }

InitialStates(p) ==
    CASE p = "financial" ->
            { [messages |-> Question, stock_data |-> EmptyDict,
               market_sentiment |-> EmptyDict, technical_analysis |-> EmptyDict,
               price_targets |-> EmptyDict, article |-> EmptyDict] }
      [] p = "market"   -> { [messages |-> Question] }
      [] p = "general"  ->
            { [messages |-> Question, context |-> <<>>, analysis |-> EmptyDict] }
      [] p = "research" -> { [messages |-> Question] }
      [] p = "interview" ->
            LET base == { [messages |-> m, context |-> <<>>] : m \in {<<>>, Question} }
                       \cup { [messages |-> m, context |-> <<>>, max_num_turns |-> k] :
                                m \in {<<>>, Question}, k \in TurnInputs }
            IN  base \cup { Overwrite(s, [analyst |-> a]) :
                              s \in base, a \in AnalystInputs }

(***************************************************************************)
(* The execution engine: a run proceeds in waves.  Every node of a wave    *)
(* reads the pre-wave state; the wave's updates are merged, in declared    *)
(* node order, once all its nodes have finished; the successors of the     *)
(* wave's nodes form the next wave.                                        *)
(***************************************************************************)
Idle(p) == [n \in NodeSet(p) |-> "idle"]

NoUpdates(p) == [n \in NodeSet(p) |-> EmptyDict]

Pending(p, w) == [n \in NodeSet(p) |-> IF n \in w THEN "pending" ELSE "idle"]

\* the updates of the wave's nodes merged into s in declared node order
RECURSIVE MergeFrom(_, _, _, _, _)
MergeFrom(p, s, w, u, i) ==
    IF i > Len(Nodes(p)) THEN s
    ELSE LET n == Nodes(p)[i]
         IN  MergeFrom(p, IF n \in w THEN Merge(p, s, u[n]) ELSE s, w, u, i + 1)

MergeWaveState(p, s, w, u) == MergeFrom(p, s, w, u, 1)

\* the nodes that follow node n once the wave has been merged into s
Successors(p, n, s, score) ==
    { e[2] : e \in { d \in Edges(p) : d[1] = n } }
    \cup IF n \in ConditionalNodes(p)
         THEN { PathMap(p, n)[SelectorLabel(p, n, s, score)] }
         ELSE {}

NextWave(p, w, s, score) ==
    (UNION { Successors(p, n, s, score) : n \in w }) \ {END}

AnalystIdle ==
    /\ runs = <<>>
    /\ store = {}
    /\ lastCall = <<>>
    /\ probe = <<>>

PipeInit ==
    /\ pipeline \in Pipelines
    /\ state \in InitialStates(pipeline)
    /\ wave = EntryPoints(pipeline)
    /\ status = Pending(pipeline, EntryPoints(pipeline))
    /\ updates = NoUpdates(pipeline)
    /\ completed = <<>>
    /\ lastOrder = <<>>
    /\ visits = 0
    /\ execCount = [n \in NodeSet(pipeline) |-> 0]
    /\ outcome = "RUNNING"
    /\ allRetry = TRUE
    /\ history = <<>>
    /\ returned = NotReturned
    /\ inputs = NoUpdates(pipeline)
    /\ waves = 0
    /\ runNo = 1
    /\ vectorstore = {}

\* a pending node of the wave starts executing: one node visit
StartNode(n) ==
    /\ outcome = "RUNNING"
    /\ n \in wave
    /\ status[n] = "pending"
    /\ visits < CycleBudget
    /\ status' = [status EXCEPT ![n] = "running"]
    /\ visits' = visits + 1
    /\ execCount' = [execCount EXCEPT ![n] = @ + 1]
    /\ UNCHANGED <<pipeline, state, wave, updates, completed, lastOrder, outcome,
                   allRetry, history, returned, inputs, waves, runNo, vectorstore>>
    /\ UNCHANGED <<analystVars, probe, cache, clock, call>>

\* a running node returns its partial update
FinishNode(n) ==
    /\ outcome = "RUNNING"
    /\ n \in wave
    /\ status[n] = "running"
    /\ \E r \in Responses(pipeline, n) :
          LET u == NodeUpdate(pipeline, n, state, r, vectorstore)
          IN  /\ history' = IF Responses(pipeline, n) = {"llm"} THEN history
                            ELSE Append(history, [node |-> n, answer |-> r])
              /\ vectorstore' = VectorstoreAfter(pipeline, n, r, vectorstore, runNo)
              /\ IF Raised(u)
                 THEN \* the exception leaves the node and ends the run
                      /\ outcome' = u.raised
                      /\ UNCHANGED <<updates, status, completed, inputs>>
                 ELSE /\ updates' = [updates EXCEPT ![n] = u]
                      /\ inputs' = [inputs EXCEPT ![n] = NodeInput(pipeline, n, state)]
                      /\ status' = [status EXCEPT ![n] = "done"]
                      /\ completed' = Append(completed, n)
                      /\ UNCHANGED outcome
    /\ UNCHANGED <<pipeline, state, wave, lastOrder, visits, execCount,
                   allRetry, returned, waves, runNo>>
    /\ UNCHANGED <<analystVars, probe, cache, clock, call>>

\* all nodes of the wave have finished: merge, then schedule the successors
MergeWave ==
    /\ outcome = "RUNNING"
    /\ wave # {}
    /\ \A n \in wave : status[n] = "done"
    /\ \E score \in Scores :
          LET merged == MergeWaveState(pipeline, state, wave, updates)
              next   == NextWave(pipeline, wave, merged, score)
              conds  == wave \cap ConditionalNodes(pipeline)
          IN  /\ state' = merged
              /\ wave' = next
              /\ history' = IF pipeline = "research" /\ "retrieve" \in wave
                            THEN Append(history, [node |-> "grade_documents",
                                                  answer |-> score])
                            ELSE history
              /\ status' = Pending(pipeline, next)
              /\ outcome' = IF next = {} THEN "TERMINATED" ELSE "RUNNING"
              /\ allRetry' =
                    (allRetry /\ \A n \in conds :
                        SelectorLabel(pipeline, n, merged, score) = RetryLabel(pipeline, n))
    /\ updates' = NoUpdates(pipeline)
    /\ inputs' = NoUpdates(pipeline)
    /\ lastOrder' = completed
    /\ completed' = <<>>
    /\ waves' = waves + 1
    /\ UNCHANGED <<pipeline, visits, execCount, returned, runNo, vectorstore>>
    /\ UNCHANGED <<analystVars, probe, cache, clock, call>>

\* a node is due but the budget of node visits is used up
BudgetFault ==
    /\ outcome = "RUNNING"
    /\ \E n \in wave : status[n] = "pending"
    /\ visits >= CycleBudget
    /\ outcome' = "CycleBudgetExceeded"
    /\ UNCHANGED <<pipeline, state, wave, status, updates, completed, lastOrder,
                   visits, execCount, allRetry, history, returned, inputs, waves,
                   runNo, vectorstore>>
    /\ UNCHANGED <<analystVars, probe, cache, clock, call>>

\* the callers that run a sub-pipeline as one step and translate its final
\* state back into an update of their own MessagesState
handle_financial_question_whole_result(result) == result

handle_financial_question(result) == [messages |-> Get(result, "messages", <<>>)]

handle_general_question(result) == [messages |-> Get(result, "messages", <<>>)]

HandledPipelines == {"financial", "general"}

\* the run is over: the caller returns its update, or the fault that ended
\* the run leaves the caller, which catches nothing
HandlerReturn ==
    /\ pipeline \in HandledPipelines
    /\ outcome \notin {"RUNNING", "NONE"}
    /\ returned = NotReturned
    /\ returned' =
          IF outcome # "TERMINATED" THEN [raised |-> outcome]
          ELSE IF pipeline = "financial" THEN handle_financial_question(state)
          ELSE handle_general_question(state)
    /\ UNCHANGED <<pipeline, state, wave, status, updates, completed, lastOrder,
                   visits, execCount, outcome, allRetry, history, inputs, waves,
                   runNo, vectorstore>>
    /\ UNCHANGED <<analystVars, probe, cache, clock, call>>

\* the process serves its next research run: every run starts from its
\* own initial state, module-level objects stay as they are
NewRun ==
    /\ pipeline = "research"
    /\ outcome \notin {"RUNNING", "NONE"}
    /\ runNo < MaxRuns
    /\ runNo' = runNo + 1
    /\ state' \in InitialStates(pipeline)
    /\ wave' = EntryPoints(pipeline)
    /\ status' = Pending(pipeline, EntryPoints(pipeline))
    /\ updates' = NoUpdates(pipeline)
    /\ inputs' = NoUpdates(pipeline)
    /\ completed' = <<>>
    /\ lastOrder' = <<>>
    /\ visits' = 0
    /\ waves' = 0
    /\ execCount' = [n \in NodeSet(pipeline) |-> 0]
    /\ outcome' = "RUNNING"
    /\ allRetry' = TRUE
    /\ history' = <<>>
    /\ UNCHANGED <<pipeline, returned, vectorstore>>
    /\ UNCHANGED <<analystVars, probe, cache, clock, call>>

PipeNext ==
    \/ \E n \in AllNodes : StartNode(n)
    \/ \E n \in AllNodes : FinishNode(n)
    \/ MergeWave
    \/ BudgetFault
    \/ HandlerReturn
    \/ NewRun

PipeStart == PipeInit /\ AnalystIdle /\ RetrieverInit

PipeSpec == PipeStart /\ [][PipeNext]_vars

PipeIdle ==
    /\ pipeline = "none"
    /\ state = EmptyDict
    /\ wave = {}
    /\ status = <<>>
    /\ updates = <<>>
    /\ completed = <<>>
    /\ lastOrder = <<>>
    /\ visits = 0
    /\ execCount = <<>>
    /\ outcome = "NONE"
    /\ allRetry = TRUE
    /\ history = <<>>
    /\ returned = NotReturned
    /\ inputs = <<>>
    /\ waves = 0
    /\ runNo = 0
    /\ vectorstore = {}

(***************************************************************************)
(* Text is a sequence of characters; lower() maps the capital letters.     *)
(***************************************************************************)
LowerChar(c) ==
    CASE c = "A" -> "a" [] c = "P" -> "p" [] c = "R" -> "r"
      [] c = "O" -> "o" [] c = "V" -> "v" [] c = "E" -> "e"
      [] OTHER -> c

Lower(text) == [i \in DOMAIN text |-> LowerChar(text[i])]

approve == <<"a", "p", "p", "r", "o", "v", "e">>

appove == <<"a", "p", "p", "o", "v", "e">>

\* the feedback a reviewer may supply on resume
Feedbacks ==
    { approve,
      <<"A", "p", "p", "r", "O", "V", "E">>,
      <<>> }

\* the feedback texts the approval rule is probed with
ProbeFeedbacks ==
    Feedbacks \cup
    { <<"A", "P", "P", "R", "O", "V", "E">>,
      <<"n", "o">>,
      appove,
      <<"a", "p", "p", "r", "o", "v", "e", "d">>,
      <<" ", "a", "p", "p", "r", "o", "v", "e">> }

(***************************************************************************)
(* The analyst graph: create_analysts -> human_review_node, which          *)
(* interrupts for review, then the conditional edge                        *)
(* initiate_all_interviews.                                                *)
(***************************************************************************)
AnalystNodes == <<"create_analysts", "human_review_node">>

AnalystNodeSet == { AnalystNodes[i] : i \in DOMAIN AnalystNodes }

AnalystEdges == { <<"create_analysts", "human_review_node">> }

AnalystEntryPoint == "create_analysts"

AnalystConditionalNodes == {"human_review_node"}

AnalystPathMap == [create_analysts |-> "create_analysts", __end__ |-> END]

InterruptNodesWithCreate == {"create_analysts", "human_review_node"}

\* the nodes that call interrupt()
InterruptNodes == {"human_review_node"}

\* the inputs a caller may start a run with
StartInputs ==
    { [topic |-> "ai", max_analysts |-> 1], [topic |-> "bio", max_analysts |-> 2] }

\* the analyst lists the backend may generate
AnalystLists == { <<Analyst("ada")>>, <<Analyst("cy"), Analyst("bob")>> }

create_analysts(s, r) == [analysts |-> r]

\* what human_review_node hands to interrupt()
ReviewPayload(s) ==
    [generated_analysts |-> [i \in DOMAIN s.analysts |-> persona(s.analysts[i])],
     instruction |-> "review"]

human_review_node_ignores_feedback(s, human_feedback) ==
    [human_analyst_feedback |-> approve]

human_review_node_drops_analysts(s, human_feedback) ==
    [human_analyst_feedback |-> human_feedback, analysts |-> <<>>]

\* what human_review_node returns once interrupt() has returned the feedback
human_review_node(s, human_feedback) ==
    [human_analyst_feedback |-> human_feedback]

initiate_all_interviews_negated(s) ==
    LET human_analyst_feedback == Get(s, "human_analyst_feedback", appove)
    IN  IF Lower(human_analyst_feedback) = approve THEN "create_analysts" ELSE END

initiate_all_interviews_default_approve(s) ==
    LET human_analyst_feedback == Get(s, "human_analyst_feedback", approve)
    IN  IF Lower(human_analyst_feedback) # approve THEN "create_analysts" ELSE END

initiate_all_interviews(s) ==
    LET human_analyst_feedback == Get(s, "human_analyst_feedback", appove)
    IN  IF Lower(human_analyst_feedback) # approve THEN "create_analysts" ELSE END

(***************************************************************************)
(* Runs of the analyst graph and the checkpoint store.                     *)
(***************************************************************************)
RunIds == {"run1", "run2"}

\* run identifiers are handed out in this order
RunOrder == <<"run1", "run2">>

FreshRunId(rs) ==
    LET free == { i \in DOMAIN RunOrder : rs[RunOrder[i]].status = "NONE" }
    IN  IF free = {} THEN "none"
        ELSE RunOrder[CHOOSE i \in free : \A j \in free : i <= j]

NoRun ==
    [status |-> "NONE", node |-> "none", phase |-> "none", state |-> EmptyDict,
     visits |-> 0, execCount |-> [n \in AnalystNodeSet |-> 0],
     suspensions |-> 0, fault |-> "none", retryOnly |-> TRUE,
     snapshot |-> EmptyDict, resumeValue |-> <<>>]

CheckpointsOf(r) == { c \in store : c.run_id = r }

WithoutRunDropsAll(st, r) == {}

WithoutRunKeepsAll(st, r) == st

\* the store without the checkpoints of run r
WithoutRun(st, r) == { d \in st : d.run_id # r }

\* persisting a checkpoint supersedes the run's earlier one
PutCheckpoint(st, c) == WithoutRun(st, c.run_id) \cup {c}

LoadCheckpointOrAny(st, r) ==
    IF { c \in st : c.run_id = r } = {} THEN st ELSE { c \in st : c.run_id = r }

\* the checkpoints resume finds under run identifier r
LoadCheckpoint(st, r) == { c \in st : c.run_id = r }

\* the update a node returns when it is run (r: the backend's answer)
AnalystNodeUpdate(n, s, r) ==
    CASE n = "create_analysts" -> create_analysts(s, r)
      [] OTHER -> EmptyDict

\* the node that follows n in state s, or END
AnalystSuccessor(n, s) ==
    IF n \in AnalystConditionalNodes
    THEN AnalystPathMap[initiate_all_interviews(s)]
    ELSE CHOOSE t \in AnalystNodeSet \cup {END} : <<n, t>> \in AnalystEdges

AnalystInit ==
    /\ runs = [r \in RunIds |-> NoRun]
    /\ store = {}
    /\ lastCall = [op |-> "none"]
    /\ probe = <<>>

\* start(input): the run gets a fresh run identifier
Start(r, input) ==
    /\ r = FreshRunId(runs)
    /\ runs' = [runs EXCEPT ![r] =
                  [NoRun EXCEPT !.status = "RUNNING",
                                !.node = AnalystEntryPoint,
                                !.phase = "enter",
                                !.state = input]]
    /\ UNCHANGED <<store, lastCall, probe, cache, clock, call, pipeVars>>

\* an ordinary node runs, its update is merged and its successor scheduled
RunNode(r) ==
    LET run == runs[r] IN
    /\ run.status = "RUNNING"
    /\ run.phase = "enter"
    /\ run.node \notin InterruptNodes
    /\ run.visits < CycleBudget
    /\ \E resp \in AnalystLists :
          LET merged == Merge("analyst", run.state,
                              AnalystNodeUpdate(run.node, run.state, resp))
          IN  runs' = [runs EXCEPT ![r] =
                         [run EXCEPT !.state = merged,
                                     !.node = AnalystSuccessor(run.node, merged),
                                     !.visits = @ + 1,
                                     !.execCount[run.node] = @ + 1]]
    /\ UNCHANGED <<store, lastCall, probe, cache, clock, call, pipeVars>>

\* an interrupt node is reached: the run's state is checkpointed and the
\* payload handed to the caller
Suspend(r) ==
    LET run == runs[r] IN
    /\ run.status = "RUNNING"
    /\ run.phase = "enter"
    /\ run.node \in InterruptNodes
    /\ run.visits < CycleBudget
    /\ store' = PutCheckpoint(store,
                    [run_id |-> r, state |-> run.state, node |-> run.node,
                     seq |-> run.suspensions + 1])
    /\ runs' = [runs EXCEPT ![r] =
                  [run EXCEPT !.status = "SUSPENDED",
                              !.state = EmptyDict,
                              !.snapshot = run.state,
                              !.suspensions = @ + 1,
                              !.visits = @ + 1,
                              !.execCount[run.node] = @ + 1]]
    /\ UNCHANGED <<lastCall, probe, cache, clock, call, pipeVars>>

\* resume(run_id, resume_value)
Resume(r, v) ==
    /\ IF LoadCheckpoint(store, r) = {}
       THEN /\ lastCall' = [op |-> "resume", run_id |-> r,
                            result |-> "CheckpointNotFound"]
            /\ UNCHANGED <<runs, store>>
       ELSE LET c == CHOOSE c \in LoadCheckpoint(store, r) : TRUE
            IN  /\ store' = WithoutRun(store, r)
                /\ runs' = [runs EXCEPT ![r] =
                              [@ EXCEPT !.status = "RUNNING",
                                        !.node = c.node,
                                        !.phase = "exit",
                                        !.resumeValue = v,
                                        !.state = Merge("analyst", c.state,
                                            human_review_node(c.state, v))]]
                /\ lastCall' = [op |-> "resume", run_id |-> r, result |-> "ok",
                                checkpoint |-> c.seq]
    /\ UNCHANGED <<probe, cache, clock, call, pipeVars>>

\* after a resume the edges that leave the suspension point are followed
Route(r) ==
    LET run  == runs[r]
        next == AnalystSuccessor(run.node, run.state)
    IN
    /\ run.status = "RUNNING"
    /\ run.phase = "exit"
    /\ runs' = [runs EXCEPT ![r] =
                  [run EXCEPT !.status = IF next = END THEN "TERMINATED" ELSE "RUNNING",
                              !.node = next,
                              !.phase = IF next = END THEN "none" ELSE "enter",
                              !.snapshot = EmptyDict,
                              !.resumeValue = <<>>,
                              !.retryOnly = (@ /\ next # END)]]
    /\ UNCHANGED <<store, lastCall, probe, cache, clock, call, pipeVars>>

\* a node is due but the run's budget of node visits is used up
AnalystBudgetFault(r) ==
    LET run == runs[r] IN
    /\ run.status = "RUNNING"
    /\ run.phase = "enter"
    /\ run.visits >= CycleBudget
    /\ runs' = [runs EXCEPT ![r] =
                  [run EXCEPT !.status = "TERMINATED",
                              !.fault = "CycleBudgetExceeded"]]
    /\ UNCHANGED <<store, lastCall, probe, cache, clock, call, pipeVars>>

AnalystNext ==
    \/ \E r \in RunIds, input \in StartInputs : Start(r, input)
    \/ \E r \in RunIds : RunNode(r)
    \/ \E r \in RunIds : Suspend(r)
    \/ \E r \in RunIds, v \in Feedbacks : Resume(r, v)
    \/ \E r \in RunIds : Route(r)
    \/ \E r \in RunIds : AnalystBudgetFault(r)

AnalystStart == PipeIdle /\ AnalystInit /\ RetrieverInit

AnalystSpec == AnalystStart /\ [][AnalystNext]_vars

(***************************************************************************)
(* The approval rule on its own: initiate_all_interviews applied to every  *)
(* state of the probe set, with and without a feedback field.              *)
(***************************************************************************)
ProbeStates ==
    LET reviewed == { Overwrite(i, [analysts |-> a]) : i \in StartInputs, a \in AnalystLists }
        base     == StartInputs \cup reviewed
    IN  base \cup { Overwrite(s, [human_analyst_feedback |-> f]) :
                      s \in base, f \in ProbeFeedbacks }

(***************************************************************************)
(* The dispatch router: the backend is asked to classify the latest        *)
(* message and its answer text is mapped to one label of the closed        *)
(* taxonomy, free text that matches no label falling back to "general".    *)
(***************************************************************************)
Taxonomy == {"financial", "market", "research", "general"}

\* the tokens CLASSIFICATION_INSTRUCTIONS tells the backend to answer with
ClassificationTokens == {"financial_question", "general_question"}

\* the texts the backend may answer the classification request with
ClassificationAnswers ==
    Taxonomy \cup ClassificationTokens \cup {"", "Financial", "I think it is about stocks"}

classify_unchecked(text) == text

classify(text) == IF text \in Taxonomy THEN text ELSE "general"

ProbeInit ==
    /\ probe \in { [input |-> s, label |-> "none"] : s \in ProbeStates }
               \cup { [answer |-> a, label |-> "none"] : a \in ClassificationAnswers }
    /\ runs = <<>>
    /\ store = {}
    /\ lastCall = <<>>

ApplySelector ==
    /\ "input" \in DOMAIN probe
    /\ probe.label = "none"
    /\ probe' = [probe EXCEPT !.label = initiate_all_interviews(probe.input)]
    /\ UNCHANGED <<analystVars, cache, clock, call, pipeVars>>

\* the router maps the backend's answer to the label it dispatches on
Classify ==
    /\ "answer" \in DOMAIN probe
    /\ probe.label = "none"
    /\ probe' = [probe EXCEPT !.label = classify(probe.answer)]
    /\ UNCHANGED <<analystVars, cache, clock, call, pipeVars>>

ProbeNext == ApplySelector \/ Classify

ProbeStart == PipeIdle /\ ProbeInit /\ RetrieverInit

ProbeSpec == ProbeStart /\ [][ProbeNext]_vars

(***************************************************************************)
(* The stock retriever on its own: calls of get_stock_data with time       *)
(* passing between them.                                                   *)
(***************************************************************************)
RetrieverStart == PipeIdle /\ AnalystIdle /\ RetrieverInit

RetrieverSpec == RetrieverStart /\ [][RetrieverNext]_vars

(***************************************************************************)
(* The whole system: a request is served by a sub-pipeline run or by       *)
(* runs of the analyst graph.                                              *)
(***************************************************************************)
Init == PipeStart \/ AnalystStart

Next ==
    \/ pipeline # "none" /\ PipeNext
    \/ pipeline = "none" /\ AnalystNext

Spec == Init /\ [][Next]_vars

(***************************************************************************)
(* Properties.                                                             *)
(***************************************************************************)
FanOutNodes ==
    {"analyze_stock_data", "analyze_market_sentiment",
     "analyze_technical_indicators", "generate_price_targets"}

\* node n has executed and returned in an earlier wave of the run
HasCompleted(n) == execCount[n] >= 1 /\ status[n] = "idle"

\* C1: in the financial pipeline write_article does not start before each of
\* the four fan-out nodes has executed once and completed, whatever the
\* interleaving of the four; it starts at most once, and exactly once in a
\* run that has terminated.
C1_SynthesisAfterFanOut ==
    pipeline = "financial" =>
        /\ execCount["write_article"] >= 1 =>
              \A n \in FanOutNodes : execCount[n] = 1 /\ HasCompleted(n)
        /\ execCount["write_article"] <= 1
        /\ outcome = "TERMINATED" => execCount["write_article"] = 1

\* write_article is executing after the fan-out wave completed in the
\* reverse of the declared order
C1_Witness ==
    /\ pipeline = "financial"
    /\ status["write_article"] = "running"
    /\ lastOrder = <<"generate_price_targets", "analyze_technical_indicators",
                     "analyze_market_sentiment", "analyze_stock_data">>

CyclicPipelines == {"market", "general", "research"}

C3_ResumeApproveTerminates ==
    [][\A r \in RunIds :
          ( /\ runs[r].status = "RUNNING"
            /\ runs[r].phase = "exit"
            /\ runs[r].suspensions = 1
            /\ runs[r].resumeValue = approve
            /\ runs'[r] # runs[r] )
          => /\ runs'[r].status = "TERMINATED"
             /\ runs'[r].fault = "none"
             /\ runs'[r].execCount["create_analysts"] = 1]_vars

C3_Witness ==
    \E r \in RunIds :
       /\ runs[r].status = "TERMINATED"
       /\ runs[r].suspensions = 1
       /\ runs[r].state.human_analyst_feedback = approve
       /\ runs[r].execCount["create_analysts"] = 1

\* a resume call was made by this step
ResumeCalled == lastCall' # lastCall /\ lastCall'.op = "resume"

\* C4: a resume under a run identifier for which the store holds no
\* checkpoint returns the CheckpointNotFound fault and changes neither the
\* checkpoint store nor any run (no node executes, nothing is restarted);
\* and the fault is returned in no other case.
C4_ResumeUnknownRun ==
    [][ResumeCalled =>
          /\ ({ c \in store : c.run_id = lastCall'.run_id } = {})
                <=> (lastCall'.result = "CheckpointNotFound")
          /\ lastCall'.result = "CheckpointNotFound"
                => (runs' = runs /\ store' = store)]_vars

\* the fault was returned for a run that never started while another run
\* is suspended with its checkpoint in the store
C4_Witness ==
    /\ pipeline = "none"
    /\ lastCall.op = "resume"
    /\ lastCall.result = "CheckpointNotFound"
    /\ runs[lastCall.run_id].status = "NONE"
    /\ \E r \in RunIds : runs[r].status = "SUSPENDED" /\ CheckpointsOf(r) # {}

\* the feedback texts of the probe set that read "approve" when case is ignored
ApprovingTexts ==
    { approve,
      <<"A", "P", "P", "R", "O", "V", "E">>,
      <<"A", "p", "p", "r", "O", "V", "E">> }

\* C5: initiate_all_interviews routes to END exactly when the feedback is
\* present and reads "approve" ignoring case; for any other feedback,
\* empty feedback and an absent feedback field included, it routes to
\* create_analysts.
C5_ApprovalRule ==
    ("input" \in DOMAIN probe /\ probe.label # "none") =>
        IF /\ "human_analyst_feedback" \in DOMAIN probe.input
           /\ probe.input.human_analyst_feedback \in ApprovingTexts
        THEN probe.label = END
        ELSE probe.label = "create_analysts"

\* the rule was applied to a state without a feedback field
C5_Witness ==
    /\ "input" \in DOMAIN probe
    /\ probe.label = "create_analysts"
    /\ "human_analyst_feedback" \notin DOMAIN probe.input
    /\ "analysts" \in DOMAIN probe.input

\* C6: a run's status changes only NONE -> RUNNING, RUNNING -> SUSPENDED
\* (only at human_review_node), SUSPENDED -> RUNNING (only by a resume that
\* consumes its checkpoint) and RUNNING -> TERMINATED; a suspended run
\* executes no node, and TERMINATED is never left.
C6_StatusTransitions ==
    [][\A r \in RunIds :
          LET old == runs[r]  new == runs'[r] IN
          /\ old.status # new.status =>
                \/ old.status = "NONE" /\ new.status = "RUNNING"
                \/ /\ old.status = "RUNNING" /\ new.status = "SUSPENDED"
                   /\ old.node = "human_review_node"
                \/ /\ old.status = "SUSPENDED" /\ new.status = "RUNNING"
                   /\ ResumeCalled /\ lastCall'.run_id = r
                \/ old.status = "RUNNING" /\ new.status = "TERMINATED"
          /\ old.status = "SUSPENDED" =>
                (new.execCount = old.execCount /\ new.visits = old.visits)
          /\ old.status = "TERMINATED" => new = old]_vars

\* a run that went through RUNNING, SUSPENDED, RUNNING twice and terminated
C6_Witness ==
    \E r \in RunIds :
       /\ runs[r].status = "TERMINATED"
       /\ runs[r].fault = "none"
       /\ runs[r].suspensions = 2

\* C7: after resume(run_id, v) the state the conditional edge is evaluated
\* on is the snapshot checkpointed at suspension with human_analyst_feedback
\* set to v (topic, max_analysts and analysts as stored), and the run stands
\* behind human_review_node without any node having been executed again.
C7_ResumeRestoresSnapshot ==
    pipeline = "none" =>
        \A r \in RunIds :
           (runs[r].status = "RUNNING" /\ runs[r].phase = "exit") =>
              /\ runs[r].state =
                    Overwrite(runs[r].snapshot,
                              [human_analyst_feedback |-> runs[r].resumeValue])
              /\ runs[r].state.topic = runs[r].snapshot.topic
              /\ runs[r].state.max_analysts = runs[r].snapshot.max_analysts
              /\ runs[r].state.analysts = runs[r].snapshot.analysts
              /\ runs[r].node = "human_review_node"
              /\ runs[r].execCount["create_analysts"] = runs[r].suspensions
              /\ runs[r].execCount["human_review_node"] = runs[r].suspensions

\* a run resumed a second time, with feedback that differs from the one
\* its snapshot carries
C7_Witness ==
    \E r \in RunIds :
       /\ runs[r].status = "RUNNING"
       /\ runs[r].phase = "exit"
       /\ runs[r].suspensions = 2
       /\ runs[r].resumeValue = approve
       /\ runs[r].snapshot.human_analyst_feedback = <<>>

\* C8: the store holds at most one checkpoint per run identifier, and the
\* one it holds is that of the run's latest suspension.
C8_OneCheckpointPerRun ==
    pipeline = "none" =>
        \A r \in RunIds :
           /\ Cardinality(CheckpointsOf(r)) <= 1
           /\ \A c \in CheckpointsOf(r) :
                 c.seq = runs[r].suspensions /\ c.state = runs[r].snapshot

\* a run suspended for the second time: its checkpoint is the second one
C8_Witness ==
    \E r \in RunIds :
       /\ runs[r].suspensions = 2
       /\ \E c \in CheckpointsOf(r) :
             c.seq = 2 /\ c.state.human_analyst_feedback = <<>>

\* C9: a run has a checkpoint in the store exactly while it is suspended
\* at human_review_node (from the suspension until the resume), and a
\* resume of a terminated run returns the fault and changes nothing.
C9_CheckpointLifecycle ==
    /\ [](pipeline = "none" =>
            \A r \in RunIds :
               /\ (CheckpointsOf(r) # {}) <=> (runs[r].status = "SUSPENDED")
               /\ \A c \in CheckpointsOf(r) : c.node = "human_review_node")
    /\ [][\A r \in RunIds :
            (runs[r].status = "TERMINATED" /\ ResumeCalled /\ lastCall'.run_id = r)
            => (lastCall'.result = "CheckpointNotFound" /\ runs' = runs
                /\ store' = store)]_vars

\* the fault was returned for a run that had terminated after one resume
C9_Witness ==
    /\ pipeline = "none"
    /\ lastCall.op = "resume"
    /\ lastCall.result = "CheckpointNotFound"
    /\ runs[lastCall.run_id].status = "TERMINATED"
    /\ runs[lastCall.run_id].suspensions = 1

\* C10: in the interview graph the entries of context alternate search_web,
\* search_wikipedia: in every iteration the entry of search_web precedes
\* that of search_wikipedia, whichever of the two completed first.
C10_ContextOrder ==
    pipeline = "interview" =>
        \A i \in DOMAIN state.context :
           state.context[i] = IF i % 2 = 1 THEN "web_docs" ELSE "wiki_docs"

\* the wave in which search_wikipedia finished first has been merged
C10_Witness ==
    /\ pipeline = "interview"
    /\ lastOrder = <<"search_wikipedia", "search_web">>
    /\ state.context = <<"web_docs", "wiki_docs">>

Range(seq) == { seq[i] : i \in DOMAIN seq }

\* the relevancy verdict the selector reads in the state
RelevancyCheck(s) == Get(Get(s, "analysis", EmptyDict), "relevancy_check", EmptyDict)

\* C11: in the general pipeline, in the wave that follows a relevancy check
\* exactly one of its two successors is due: analyze_results when the
\* verdict has relevant = true, search_web otherwise (also when the verdict
\* or its key is absent); analyze_results is not due after a not-relevant
\* verdict.
C11_ExactlyOneSuccessor ==
    ( /\ pipeline = "general"
      /\ outcome = "RUNNING"
      /\ "check_relevancy" \in Range(lastOrder) )
    => wave \cap {"analyze_results", "search_web"} =
          IF Get(RelevancyCheck(state), "relevant", FALSE)
          THEN {"analyze_results"}
          ELSE {"search_web"}

\* the verdicts the relevancy checks of the run have returned, in order
RelevancyVerdicts ==
    LET answers == SelectSeq(history, LAMBDA h : h.node = "check_relevancy")
    IN  [i \in DOMAIN answers |-> json_loads(answers[i].answer)]

IsRelevant(v) == ~Raised(v) /\ Get(v, "relevant", FALSE)

IsNotRelevant(v) == ~Raised(v) /\ ~Get(v, "relevant", FALSE)

\* C12: in a general run whose first relevancy verdict is not relevant and
\* whose second is relevant, the search node is invoked exactly twice, the
\* run does not fault, analysis is what follows the second verdict, and
\* the run terminates (a run that has stopped has terminated, and has run
\* the analysis).
C12_SecondSearchSucceeds ==
    ( /\ pipeline = "general"
      /\ Len(RelevancyVerdicts) >= 2
      /\ IsNotRelevant(RelevancyVerdicts[1])
      /\ IsRelevant(RelevancyVerdicts[2]) )
    => /\ execCount["search_web"] = 2
       /\ execCount["check_relevancy"] = 2
       /\ outcome \in {"RUNNING", "TERMINATED"}
       /\ outcome = "RUNNING" => ENABLED PipeNext
       /\ "check_relevancy" \in Range(lastOrder) => wave = {"analyze_results"}
       /\ outcome = "TERMINATED" =>
             /\ execCount["analyze_results"] >= 1
             /\ lastOrder = <<"write_article">>

\* such a run has terminated
C12_Witness ==
    /\ pipeline = "general"
    /\ outcome = "TERMINATED"
    /\ Len(RelevancyVerdicts) = 2
    /\ IsNotRelevant(RelevancyVerdicts[1])
    /\ "relevant" \in DOMAIN RelevancyVerdicts[1]
    /\ IsRelevant(RelevancyVerdicts[2])
    /\ execCount["search_web"] = 2

\* C13: when the relevancy check, with a verdict that carries suggestions,
\* has routed back to the search node, the query of that search is one of
\* the suggestions and differs from the query of the previous search.
C13_AdjustedQuery ==
    ( /\ pipeline = "general"
      /\ execCount["search_web"] >= 2
      /\ status["search_web"] = "done"
      /\ Get(RelevancyCheck(state), "suggestions", <<>>) # <<>> )
    => LET query       == updates["search_web"].web_results[1].query
           previous    == state.web_results[1].query
           suggestions == RelevancyCheck(state).suggestions
       IN  /\ query # previous
           /\ query \in Range(suggestions)

\* the quality judgment the selector reads in the state
QualityControl(s) == Get(Get(s, "analysis", EmptyDict), "quality_control", EmptyDict)

Flagged(r) ==
    \/ "degraded" \in DOMAIN r
    \/ \E i \in DOMAIN r.messages : "degraded" \in DOMAIN r.messages[i]

\* C16: a general run in which every relevancy verdict was not relevant and
\* which the budget has ended gives its caller an answer, and the answer is
\* marked as built from possibly-irrelevant context.
C16_DegradedAnswerFlagged ==
    ( /\ pipeline = "general"
      /\ outcome = "CycleBudgetExceeded"
      /\ \A i \in DOMAIN RelevancyVerdicts : IsNotRelevant(RelevancyVerdicts[i])
      /\ returned # NotReturned )
    => (~Raised(returned) /\ Flagged(returned))

\* C17: no run of a sub-pipeline ends with a failure other than the cycle
\* budget: a backend answer that is not valid JSON makes the node return a
\* contribution, and the run goes on.
C17_NodeFaultsAreContained ==
    pipeline \in Pipelines =>
        outcome \in {"RUNNING", "TERMINATED", "CycleBudgetExceeded"}

\* C18: a placeholder that stands in for a failed external call carries an
\* error marker: the analysis analyze_search_results writes for a backend
\* answer it could not parse has an "error" field, and so has what
\* get_stock_data returns for a missing symbol or a failed fetch.
C18_PlaceholdersCarryErrorMarker ==
    /\ ( /\ pipeline = "general"
         /\ status["analyze_results"] = "done"
         /\ history # <<>>
         /\ history[Len(history)].node = "analyze_results"
         /\ Raised(json_loads(history[Len(history)].answer)) )
       => "error" \in DOMAIN updates["analyze_results"].analysis
    /\ \A symbol \in Symbols, fetch \in FailedFetches :
          "error" \in DOMAIN get_stock_data(symbol, EmptyDict, fetch)

\* C19: the label the dispatch router returns is one label of the taxonomy
\* for every answer of the backend; an answer that is a label is routed to
\* that label and any other answer to "general".
C19_RouterFallback ==
    ("answer" \in DOMAIN probe /\ probe.label # "none") =>
        /\ probe.label \in Taxonomy
        /\ probe.label = IF probe.answer \in Taxonomy THEN probe.answer ELSE "general"

\* free text was classified, and went to the general pipeline
C19_Witness ==
    /\ "answer" \in DOMAIN probe
    /\ probe.answer = "I think it is about stocks"
    /\ probe.label = "general"

\* the fields a sub-pipeline keeps to itself
InternalFields ==
    {"stock_data", "market_sentiment", "technical_analysis", "price_targets",
     "article", "web_results", "wiki_results", "context", "analysis"}

\* C20: the update handle_financial_question and handle_general_question
\* hand back holds the messages field and nothing else: none of the
\* sub-pipeline's internal fields is in it.
C20_OnlyMessagesCrossBoundary ==
    (pipeline \in HandledPipelines /\ returned # NotReturned /\ ~Raised(returned))
    => /\ DOMAIN returned = {"messages"}
       /\ DOMAIN returned \cap InternalFields = {}
       /\ returned.messages = state.messages

\* a financial run whose final state holds the internal fields has handed
\* back its messages; so has a general run
C20_Witness ==
    /\ pipeline = "financial"
    /\ outcome = "TERMINATED"
    /\ {"stock_data", "market_sentiment", "technical_analysis", "price_targets"}
          \subseteq DOMAIN state
    /\ state.stock_data # EmptyDict
    /\ ~Raised(returned)
    /\ returned # NotReturned
    /\ Len(returned.messages) = 2

\* the updates u of the nodes of order merged into s one after the other
RECURSIVE MergeInOrder(_, _, _, _)
MergeInOrder(p, s, order, u) ==
    IF order = <<>> THEN s
    ELSE MergeInOrder(p, Merge(p, s, u[Head(order)]), Tail(order), u)

\* the orders in which the nodes of set w can be taken
Orders(w) ==
    { o \in [1..Cardinality(w) -> w] : \A i, j \in DOMAIN o : i # j => o[i] # o[j] }

\* the answer the backend gave node n in this run
AnswerOf(n) ==
    LET given == SelectSeq(history, LAMBDA h : h.node = n)
    IN  given[Len(given)].answer

\* the state a financial run starts from
FinancialStart == CHOOSE s \in InitialStates("financial") : TRUE

\* C21: in the fan-out wave of the financial pipeline the four nodes write
\* four different fields, so merging their updates in any order gives the
\* same state; and after the wave each of the four fields holds what its
\* node computes from the state as it was before the wave, whatever the
\* order in which the four ran and completed.
C21_FanOutOrderIndependent ==
    pipeline = "financial" =>
      /\ (wave = FanOutNodes /\ \A n \in wave : status[n] = "done") =>
            /\ \A n, m \in wave : n # m => DOMAIN updates[n] \cap DOMAIN updates[m] = {}
            /\ \A o \in Orders(wave) :
                  MergeInOrder(pipeline, state, o, updates)
                     = MergeWaveState(pipeline, state, wave, updates)
      /\ Len(lastOrder) = 4 =>
            /\ state.stock_data =
                  analyze_stock_data(FinancialStart, AnswerOf("analyze_stock_data")).stock_data
            /\ state.market_sentiment =
                  analyze_market_sentiment(FinancialStart,
                      AnswerOf("analyze_market_sentiment")).market_sentiment
            /\ state.technical_analysis =
                  analyze_technical_indicators(FinancialStart).technical_analysis
            /\ state.price_targets = generate_price_targets(FinancialStart).price_targets
            /\ state.messages = FinancialStart.messages

\* the fan-out wave has been merged after it completed in an order that is
\* neither the declared one nor its reverse, the two symbol extractions
\* having given different answers
C21_Witness ==
    /\ pipeline = "financial"
    /\ lastOrder = <<"analyze_market_sentiment", "generate_price_targets",
                     "analyze_stock_data", "analyze_technical_indicators">>
    /\ state.stock_data.symbol = "AAPL"
    /\ state.market_sentiment.symbol = ""

\* C22: no node function changes the state object it is handed (a node
\* that has returned leaves the object equal to the run's state of that
\* wave; index_papers of the research pipeline does so too), and the
\* state of a run changes only by the merge of the updates of a wave.
C22_NodesLeaveInputUnmodified ==
    /\ [](pipeline \in Pipelines =>
            \A n \in wave : status[n] = "done" => inputs[n] = state)
    /\ [][(pipeline \in Pipelines /\ runNo' = runNo /\ state' # state)
          => state' = MergeWaveState(pipeline, state, wave, updates)]_vars

\* the documents the retriever tool has handed to this run
Retrieved(s) ==
    UNION { s.messages[i].content :
              i \in { j \in DOMAIN s.messages : s.messages[j].type = "tool" } }

\* C23: a research run is not influenced by the research runs before it:
\* every document its retriever returns is one the run itself indexed, so
\* what it retrieves does not depend on whether an earlier run indexed
\* papers.
C23_NoCrossRunData ==
    pipeline = "research" => Retrieved(state) \subseteq summary_docs(runNo)

\* C24: whenever a selector is evaluated (route_messages, needs_new_search,
\* needs_revision, tools_condition and grade_documents on the state a wave
\* merges to, initiate_all_interviews on the state a resume restores) the
\* label it returns is a label declared on its conditional edge, and the
\* nodes a run is at are nodes of its graph.
C24_DeclaredLabelsOnly ==
    /\ pipeline \in Pipelines =>
          /\ wave \subseteq NodeSet(pipeline)
          /\ (outcome = "RUNNING" /\ wave # {} /\ \A n \in wave : status[n] = "done") =>
                LET merged == MergeWaveState(pipeline, state, wave, updates)
                IN  \A n \in wave \cap ConditionalNodes(pipeline), score \in Scores :
                       SelectorLabel(pipeline, n, merged, score)
                          \in DOMAIN PathMap(pipeline, n)
    /\ pipeline = "none" =>
          \A r \in RunIds :
             /\ runs[r].node \in AnalystNodeSet \cup {END, "none"}
             /\ (runs[r].status = "RUNNING" /\ runs[r].phase = "exit") =>
                   initiate_all_interviews(runs[r].state) \in DOMAIN AnalystPathMap

\* route_messages has ended an interview on the closing question, before
\* the turn limit was reached
C24_Witness ==
    /\ pipeline = "interview"
    /\ "answer_question" \in Range(lastOrder)
    /\ wave = {"save_interview"}
    /\ Get(state, "max_num_turns", 2) = 3
    /\ Len(state.messages) = 2
    /\ state.messages[1].content = "thanks"

\* every edge of graph p: the plain ones and the branches of the
\* conditional ones
AllEdges(p) ==
    Edges(p) \cup
    UNION { { <<n, PathMap(p, n)[l]>> : l \in DOMAIN PathMap(p, n) } :
              n \in ConditionalNodes(p) }

\* the nodes reached from the nodes of S in at most k further steps
RECURSIVE ReachFrom(_, _, _)
ReachFrom(p, S, k) ==
    IF k = 0 THEN S
    ELSE ReachFrom(p, S \cup { e[2] : e \in { d \in AllEdges(p) : d[1] \in S } }, k - 1)

\* no node of graph p is reached from its own successors
IsAcyclic(p) ==
    \A n \in NodeSet(p) :
       n \notin ReachFrom(p, { e[2] : e \in { d \in AllEdges(p) : d[1] = n } },
                          Len(Nodes(p)))

\* C25: a run of a graph without a cycle merges at most as many waves as
\* the graph has nodes, never stops short of its end and never runs out of
\* budget; the financial graph is such a graph, and a financial run has
\* terminated after exactly two waves, the fan-out and the synthesis.
C25_AcyclicTerminates ==
    /\ IsAcyclic("financial")
    /\ (pipeline \in Pipelines /\ IsAcyclic(pipeline)) =>
          /\ waves <= Len(Nodes(pipeline))
          /\ outcome \in {"RUNNING", "TERMINATED"}
          /\ outcome = "RUNNING" => ENABLED PipeNext
          /\ outcome = "TERMINATED" => (wave = {} /\ waves >= 1)
    /\ (pipeline = "financial" /\ outcome = "TERMINATED") =>
          /\ waves = 2
          /\ lastOrder = <<"write_article">>
          /\ visits = Len(FinancialNodes)

\* a financial run has terminated with its second wave
C25_Witness ==
    /\ pipeline = "financial"
    /\ outcome = "TERMINATED"
    /\ waves = 2
    /\ execCount["write_article"] = 1
    /\ returned = NotReturned

\* sequence a is an initial part of sequence b
IsPrefix(a, b) == Len(a) <= Len(b) /\ \A i \in DOMAIN a : b[i] = a[i]

\* C26: within a run of the interview, financial, general, market or
\* research pipeline every step leaves the messages the state held before
\* it as an initial part of the messages it holds after it: no message is
\* removed, replaced or moved.
C26_MessagesAppendOnly ==
    [][(pipeline \in Pipelines /\ runNo' = runNo)
       => IsPrefix(state.messages, state'.messages)]_vars

\* a research run whose index node handed its whole state back has gone
\* on appending: the question is still the first of its messages
C26_Witness ==
    /\ pipeline = "research"
    /\ "query" \in DOMAIN state
    /\ Len(state.messages) >= 4
    /\ state.messages[1].content = "question"
    /\ state.messages[4].content = "rewritten"

\* the contributions of the four analysis nodes as the article holds them
ArticleSections == {"stock_data", "market_sentiment", "technical_analysis", "price_targets"}

\* C27: when a financial run has terminated, the article field of its
\* final state holds a non-empty contribution of each of the four analysis
\* nodes, and the data the article was written from has a company
\* overview, a market analysis, a technical analysis and an investment
\* thesis, none of them empty.
C27_ArticleHasAllContributions ==
    (pipeline = "financial" /\ outcome = "TERMINATED") =>
        /\ state.article # EmptyDict
        /\ \A k \in ArticleSections :
              k \in DOMAIN state.article /\ state.article[k] # EmptyDict
        /\ LET data == article_data(state)
           IN  /\ data.company_overview # ""
               /\ data.market_analysis # ""
               /\ data.technical_analysis # ""
               /\ data.investment_thesis # ""

\* the nodes of the interview graph that read the analyst persona
PersonaNodes == {"ask_question", "answer_question", "write_section"}

\* C28: in an interview whose state holds no usable analyst (the field is
\* absent or None), generate_question, generate_answer and write_section
\* work with the default Analyst (Generic Analyst, Research Analyst,
\* Research Organization) and none of them fails.
C28_DefaultAnalystWhenAbsent ==
    (pipeline = "interview" /\ ("analyst" \notin DOMAIN state \/ state.analyst = None)) =>
        /\ outcome # "AttributeError"
        /\ \A n \in PersonaNodes \cap wave :
              status[n] = "done" =>
                 LET analyst == state_get_analyst(inputs[n])
                 IN  /\ analyst.name = "Generic Analyst"
                     /\ analyst.role = "Research Analyst"
                     /\ analyst.affiliation = "Research Organization"

\* C29: a run of the analyst graph ends normally only by the step that
\* follows a resume whose feedback reads "approve" when case is ignored,
\* and the feedback in its final state is that approval; every execution
\* of create_analysts is followed by a suspension at human_review_node
\* before the run can end, so no analyst list is accepted unreviewed.
C29_NoAcceptanceWithoutReview ==
    /\ [](pipeline = "none" =>
            \A r \in RunIds :
               LET created == runs[r].execCount["create_analysts"] IN
               /\ (runs[r].status = "TERMINATED" /\ runs[r].fault = "none") =>
                     /\ "human_analyst_feedback" \in DOMAIN runs[r].state
                     /\ Lower(runs[r].state.human_analyst_feedback) = approve
                     /\ runs[r].suspensions >= 1
               /\ runs[r].status \in {"TERMINATED", "SUSPENDED"} =>
                     runs[r].suspensions = created
               /\ runs[r].status = "RUNNING" =>
                     runs[r].suspensions \in {created, created - 1})
    /\ [][\A r \in RunIds :
            ( /\ runs[r].status # "TERMINATED"
              /\ runs'[r].status = "TERMINATED"
              /\ runs'[r].fault = "none" )
            => /\ runs[r].phase = "exit"
               /\ runs[r].node = "human_review_node"
               /\ Lower(runs[r].resumeValue) = approve]_vars

\* a run whose first list was turned down has ended on a second review
\* that approved in mixed case
C29_Witness ==
    \E r \in RunIds :
       /\ runs[r].status = "TERMINATED"
       /\ runs[r].fault = "none"
       /\ runs[r].suspensions = 2
       /\ runs[r].execCount["create_analysts"] = 2
       /\ runs[r].state.human_analyst_feedback = <<"A", "p", "p", "r", "O", "V", "E">>

\* C30: in the market pipeline, whenever write_report executes (the first
\* time and after every revise), the analysis field of the state it reads
\* holds both the market_trends contribution of analyze_trends and the
\* market_sentiment contribution of analyze_sentiment.
C30_ReportReadsBothAnalyses ==
    (pipeline = "market" /\ status["write_report"] = "running") =>
        LET analysis == Get(state, "analysis", EmptyDict)
        IN  /\ "market_trends" \in DOMAIN analysis
            /\ "market_sentiment" \in DOMAIN analysis

\* the nodes of the general pipeline that search and judge
SearchNodes == {"search_web", "combine_results", "check_relevancy"}

\* C31: in the general pipeline write_article executes at most once in a
\* run and only when the latest relevancy verdict was relevant, and once
\* write_article has executed no search_web, combine_results or
\* check_relevancy executes any more.
C31_ArticleOnceAfterRelevant ==
    /\ [](pipeline = "general" =>
            /\ execCount["write_article"] <= 1
            /\ execCount["write_article"] >= 1 =>
                  /\ RelevancyVerdicts # <<>>
                  /\ IsRelevant(RelevancyVerdicts[Len(RelevancyVerdicts)]))
    /\ [][(pipeline = "general" /\ execCount["write_article"] >= 1)
          => \A n \in SearchNodes : execCount'[n] = execCount[n]]_vars

\* node n of the current wave is executing or has returned
HasStarted(n) == status[n] \in {"running", "done"}

\* C32: when analyze_technical_indicators executes, the stock_data it
\* reads in the state is the output of analyze_stock_data of this run, and
\* when generate_price_targets executes, stock_data, market_sentiment and
\* technical_analysis are the outputs of their nodes: none of them is the
\* empty initial value.
C32_TargetsReadAnalysisOutputs ==
    pipeline = "financial" =>
        /\ HasStarted("analyze_technical_indicators") =>
              /\ state.stock_data # EmptyDict
              /\ state.stock_data.symbol = AnswerOf("analyze_stock_data")
        /\ HasStarted("generate_price_targets") =>
              /\ state.stock_data # EmptyDict
              /\ state.market_sentiment # EmptyDict
              /\ state.technical_analysis # EmptyDict
        /\ status["generate_price_targets"] = "done" =>
              \A k \in {"stock_data", "market_sentiment", "technical_analysis"} :
                 updates["generate_price_targets"].price_targets[k] # EmptyDict

\* the answers in messages s that carry the expert's name
ExpertAnswers(msgs) ==
    Cardinality({ i \in DOMAIN msgs : msgs[i].type = "ai" /\ msgs[i].name = "expert" })

Max(a, b) == IF a >= b THEN a ELSE b

C35_AnswerAfterBothSearches ==
    /\ [](pipeline = "interview" =>
            LET k == execCount["answer_question"] IN
            /\ k \in {execCount["ask_question"] - 1, execCount["ask_question"]}
            /\ HasStarted("answer_question") =>
                  /\ k = execCount["ask_question"]
                  /\ execCount["search_web"] = k
                  /\ execCount["search_wikipedia"] = k
                  /\ status["search_web"] = "idle"
                  /\ status["search_wikipedia"] = "idle"
                  /\ Len(state.context) = 2 * k)
    /\ [][(pipeline = "interview" /\ runNo' = runNo)
          => IsPrefix(state.context, state'.context)]_vars

\* answer_question is executing for the second time, on four entries, after
\* a pass in which search_wikipedia completed first
C35_Witness ==
    /\ pipeline = "interview"
    /\ status["answer_question"] = "running"
    /\ execCount["answer_question"] = 2
    /\ Len(state.context) = 4
    /\ lastOrder = <<"search_wikipedia", "search_web">>

\* the latest answer the backend gave in this run
LastAnswer == history[Len(history)]

\* C36: in the research pipeline index executes exactly once and before
\* every other node; generate executes at most once and only in the wave
\* that follows a retrieve whose documents were graded "yes" (after a "no"
\* rewrite follows); after every rewrite agent is due; and a run reaches
\* its end only from agent, when its answer requests no tool, or from
\* generate.
C36_ResearchOrder ==
    pipeline = "research" =>
        /\ execCount["index"] <= 1
        /\ visits >= 1 => execCount["index"] = 1
        /\ \A n \in NodeSet("research") \ {"index"} :
              execCount[n] >= 1 => HasCompleted("index")
        /\ execCount["generate"] <= 1
        /\ "generate" \in wave =>
              /\ wave = {"generate"}
              /\ lastOrder = <<"retrieve">>
              /\ LastAnswer = [node |-> "grade_documents", answer |-> "yes"]
        /\ (lastOrder = <<"retrieve">> /\ LastAnswer.answer = "no") => wave = {"rewrite"}
        /\ lastOrder = <<"rewrite">> => wave = {"agent"}
        /\ outcome = "TERMINATED" =>
              \/ lastOrder = <<"generate">>
              \/ /\ lastOrder = <<"agent">>
                 /\ ~state.messages[Len(state.messages)].tool_calls

\* a research run has ended after generate, its first retrieval having
\* been graded "no" and rewritten
C36_Witness ==
    /\ pipeline = "research"
    /\ outcome = "TERMINATED"
    /\ lastOrder = <<"generate">>
    /\ execCount["rewrite"] = 1
    /\ execCount["retrieve"] = 2
    /\ execCount["index"] = 1

\* C37: with two runs suspended under different run identifiers, a resume
\* of one of them, with any feedback, changes neither the other run nor
\* the other run's checkpoint, which still holds the state that run had at
\* its own suspension, so the other run can be resumed with it afterwards.
C37_ResumeLeavesOtherRunAlone ==
    [][\A r, o \in RunIds :
          ( /\ r # o
            /\ runs[r].status = "SUSPENDED"
            /\ runs[o].status = "SUSPENDED"
            /\ ResumeCalled
            /\ lastCall'.run_id = r )
          => /\ lastCall'.result = "ok"
             /\ runs'[o] = runs[o]
             /\ { c \in store' : c.run_id = o } = { c \in store : c.run_id = o }
             /\ \E c \in LoadCheckpoint(store', o) :
                   /\ c.state = runs[o].snapshot
                   /\ c.seq = runs[o].suspensions]_vars

\* one of two suspended runs has been resumed and has gone on to its end;
\* the other has then been resumed from its own checkpoint
C37_Witness ==
    \E r, o \in RunIds :
       /\ r # o
       /\ runs[r].status = "TERMINATED"
       /\ runs[r].suspensions = 1
       /\ runs[o].status = "RUNNING"
       /\ runs[o].phase = "exit"
       /\ runs[o].suspensions = 2
       /\ runs[o].state.topic # runs[r].state.topic
       /\ runs[o].state.analysts = runs[o].snapshot.analysts

\* a call of get_stock_data has just returned
StockCalled == call' # call

\* C38: the cache of get_stock_data only ever holds successful results; a
\* call that returns an error (empty symbol, no data found, an exception
\* during the fetch) leaves the cache unchanged, and a call with an empty
\* symbol performs no fetch at all.
C38_CacheHoldsOnlySuccesses ==
    /\ [](\A key \in DOMAIN cache : "error" \notin DOMAIN cache[key].data)
    /\ [][(StockCalled /\ "error" \in DOMAIN call'.result) => cache' = cache]_vars
    /\ [](call.symbol = "" => ~call.fetched)

\* the fetch of a call has failed while the cache held an entry of the same
\* key that was too old to be returned: the entry is still there
C38_Witness ==
    /\ call.fetched
    /\ call.fetch = "failed_to_download"
    /\ "error" \in DOMAIN call.result
    /\ cache_key(call.symbol, call.period) \in DOMAIN cache
    /\ call.at - cache[cache_key(call.symbol, call.period)].time >= CacheMinutes

\* the entry of the cache for a (symbol, period) pair, EmptyDict when none
EntryOf(c, symbol, period) ==
    IF cache_key(symbol, period) \in DOMAIN c
    THEN c[cache_key(symbol, period)] ELSE EmptyDict

\* C39: get_stock_data returns a cached result without fetching exactly
\* when an entry for the same (symbol, period) exists and is younger than 15
\* minutes; an entry aged 15 minutes or more is never returned: the data is
\* fetched again and on success the entry is replaced with the new result
\* and timestamp.
C39_CacheFreshness ==
    /\ [](\A s1, s2 \in Symbols, p1, p2 \in Periods :
            cache_key(s1, p1) = cache_key(s2, p2) => s1 = s2 /\ p1 = p2)
    /\ [][StockCalled =>
           LET key   == cache_key(call'.symbol, call'.period)
               entry == EntryOf(cache, call'.symbol, call'.period)
               young == entry # EmptyDict /\ clock - entry.time < 15
               old   == entry # EmptyDict /\ clock - entry.time >= 15
           IN  /\ young <=> (~call'.fetched /\ "error" \notin DOMAIN call'.result)
               /\ young => call'.result = entry.data
               /\ old => /\ call'.fetched
                         /\ call'.fetch = "ok" =>
                               /\ call'.result.current_price = call'.price
                               /\ cache'[key] = [time |-> clock, data |-> call'.result]
                         /\ call'.fetch # "ok" => "error" \in DOMAIN call'.result]_vars

\* an entry of exactly 15 minutes was not returned: the data was fetched
\* again, at another price, and the entry holds the new result and time
C39_Witness ==
    /\ call.fetched
    /\ call.fetch = "ok"
    /\ call.at = 15
    /\ call.price = 101
    /\ cache_key(call.symbol, call.period) \in DOMAIN cache
    /\ cache[cache_key(call.symbol, call.period)] = [time |-> 15, data |-> call.result]
    /\ clock = 25
    /\ \E period \in Periods :
          /\ period # call.period
          /\ EntryOf(cache, call.symbol, period) # EmptyDict
          /\ EntryOf(cache, call.symbol, period).time = 0


====
